---- MODULE Spec2Model ----
(***************************************************************************)
(* State-machine model of train.py: configuration, model construction,     *)
(* the initial validation pass, the epoch loop of train (optimisation,     *)
(* validation, save-best checkpointing, early stopping) and modelTest.     *)
(*                                                                         *)
(* Floating point metrics (mIoU, loss) are modelled as integer levels;     *)
(* the code only compares them.  A model_type string is a sequence of      *)
(* one-character strings so that str.lower() can be computed.              *)
(***************************************************************************)
EXTENDS Integers, Sequences, FiniteSets, TLC

VARIABLES
    pc,                 \* position of the single thread of control
    error,              \* uncaught exception that ended the run, or "none"
    cosine_annealing,   \* config['cosine_annealing']
    use_class_weights,  \* config['class_imbalance_fix']
    epochs,             \* config['epochs']
    model_type,         \* config['model_type']
    freeze_encoder,     \* config['freeze_encoder']
    fcn_arch,           \* class of fcn_model
    init_fn,            \* function passed to fcn_model.apply
    freeze_arg,         \* freeze_encoder argument the constructor received
    scheduler,          \* local `scheduler` of get_model_optimizer_scheduler
    class_weights,      \* local `class_weights`
    criterion,          \* local `criterion`
    mode,               \* fcn_model.training: "train" or "eval"
    val_caller,         \* who called val: "main", "train" or "none"
    val_iter,           \* batches of val_loader consumed by the running val
    epoch,              \* loop variable of train
    iter,               \* batches of train_loader consumed in this epoch
    best_iou_score,
    val_loss,           \* np.zeros(epochs), filled per epoch
    mean_iou_scores,    \* np.zeros(epochs), filled per epoch
    bad_epochs,
    earlyStop,
    current_miou_score,
    current_val_loss,
    opt_steps,          \* optimizer.step() calls made
    sched_steps,        \* scheduler.step() calls made
    val_passes,         \* forward passes made inside val
    model_file,         \* content of save_location + 'model.pt'
    loaded              \* what modelTest's torch.load returned

cfgvars   == <<cosine_annealing, use_class_weights, epochs, model_type, freeze_encoder>>
setupvars == <<fcn_arch, init_fn, freeze_arg, scheduler, class_weights, criterion>>
valvars   == <<val_caller, val_iter, val_passes>>
trainvars == <<epoch, iter, best_iou_score, val_loss, mean_iou_scores, bad_epochs,
               earlyStop, current_miou_score, current_val_loss, opt_steps, sched_steps>>
vars == <<pc, error, cfgvars, setupvars, mode, valvars, trainvars, model_file, loaded>>

----------------------------------------------------------------------------
(* Bounds of the model *)

MaxEpochs == 4          \* largest config['epochs'] of Spec
MaxMiou == 2            \* mIoU levels 0..MaxMiou of Spec
MaxLoss == 1            \* loss levels 0..MaxLoss of Spec
MaxEpochsStop == 8      \* largest config['epochs'] of SpecStop
MaxLossStop == 6        \* loss levels 0..MaxLossStop of SpecStop
NumTrainBatches == 2    \* len(train_loader)
NumValBatches == 2      \* len(val_loader)

----------------------------------------------------------------------------
(* Program constants *)

early_stop_patience == 5
early_stop == TRUE
NoFile == -2            \* model.pt does not exist
StaleFile == -1         \* model.pt exists but was left by an earlier run

----------------------------------------------------------------------------
(* str.lower() on the characters that occur in model types *)

UpperCase == <<"A","B","C","D","E","F","G","H","I","J","K","L","M",
               "N","O","P","Q","R","S","T","U","V","W","X","Y","Z">>
LowerCase == <<"a","b","c","d","e","f","g","h","i","j","k","l","m",
               "n","o","p","q","r","s","t","u","v","w","x","y","z">>

LowerChar(c) ==
    IF \E i \in DOMAIN UpperCase : UpperCase[i] = c
    THEN LowerCase[CHOOSE i \in DOMAIN UpperCase : UpperCase[i] = c]
    ELSE c

\* a comparison that forgets to lower-case the configured string
Lower_Id(s) == s

Lower(s) == [i \in DOMAIN s |-> LowerChar(s[i])]

S_unet == <<"u","n","e","t">>
S_resnet == <<"r","e","s","n","e","t">>
S_new_arch == <<"n","e","w","_","a","r","c","h">>
S_resnet50 == <<"r","e","s","n","e","t","5","0">>
S_resnet_leaky == <<"r","e","s","n","e","t","_","l","e","a","k","y">>
S_resnet_2model_skip_res_cat ==
    <<"r","e","s","n","e","t","_","2","m","o","d","e","l","_",
      "s","k","i","p","_","r","e","s","_","c","a","t">>
S_resnet_skip_residual ==
    <<"r","e","s","n","e","t","_","s","k","i","p","_",
      "r","e","s","i","d","u","a","l">>

(* The if/elif chain of get_model_optimizer_scheduler: the class built,    *)
(* whether freeze_encoder is passed, and the initialiser applied.          *)
SelectModel(mt) ==
    LET l == Lower(mt) IN
    IF l = S_unet THEN [arch |-> "UNet", freeze |-> FALSE, init |-> "init_weights"]
    ELSE IF l = S_resnet
        THEN [arch |-> "Resnet", freeze |-> TRUE, init |-> "init_weights_transfer_learning"]
    ELSE IF l = S_new_arch
        THEN [arch |-> "New_Arch", freeze |-> FALSE, init |-> "init_weights"]
    ELSE IF l = S_resnet50
        THEN [arch |-> "Resnet50", freeze |-> TRUE, init |-> "init_weights_transfer_learning"]
    ELSE IF l = S_resnet_leaky
        THEN [arch |-> "ResnetLeaky", freeze |-> TRUE, init |-> "init_weights_transfer_learning"]
    ELSE IF l = S_resnet_2model_skip_res_cat
        THEN [arch |-> "Resnet2ModelSkipResCat", freeze |-> TRUE,
              init |-> "init_weights_transfer_learning"]
    ELSE IF l = S_resnet_skip_residual
        THEN [arch |-> "Resnet_Skip_Residual", freeze |-> TRUE,
              init |-> "init_weights_transfer_learning"]
    ELSE [arch |-> "FCN", freeze |-> FALSE, init |-> "init_weights"]

----------------------------------------------------------------------------
(* Inputs *)

\* model types of the configuration check: exact names, other casings,
\* misspellings and unrelated strings
ModelTypeInputs ==
    { S_unet, S_resnet, S_new_arch, S_resnet50, S_resnet_leaky,
      S_resnet_2model_skip_res_cat, S_resnet_skip_residual,
      <<"U","N","e","t">>, <<"R","e","s","N","e","t">>,
      <<"N","E","W","_","A","R","C","H">>,
      <<"R","E","S","N","E","T","5","0">>,
      <<"R","e","s","n","e","t","_","L","e","a","k","y">>,
      <<"R","E","S","N","E","T","_","S","K","I","P","_",
        "R","E","S","I","D","U","A","L">>,
      <<"f","c","n">>, <<"u","n","e","t","t">>, <<"r","e","s","n","e","t","5">>,
      <<"r","e","s","n","e","t","-","l","e","a","k","y">>, <<>> }

ZeroArray(n) == [i \in 1..n |-> 0]

SetMin(S) == CHOOSE x \in S : \A y \in S : x <= y

InitWith(epochSet, typeSet, freezeSet, fileSet) ==
    /\ pc = "setup"
    /\ error = "none"
    /\ cosine_annealing \in BOOLEAN
    /\ use_class_weights \in BOOLEAN
    /\ epochs \in epochSet
    /\ model_type \in typeSet
    /\ freeze_encoder \in freezeSet
    /\ fcn_arch = "unbound"
    /\ init_fn = "unbound"
    /\ freeze_arg = "unbound"
    /\ scheduler = "unbound"
    /\ class_weights = "unbound"
    /\ criterion = "unbound"
    /\ mode = "train"
    /\ val_caller = "none"
    /\ val_iter = 0
    /\ val_passes = 0
    /\ epoch = 0
    /\ iter = 0
    /\ best_iou_score = 0
    /\ val_loss = <<>>
    /\ mean_iou_scores = <<>>
    /\ bad_epochs = 0
    /\ earlyStop = -1
    /\ current_miou_score = 0
    /\ current_val_loss = 0
    /\ opt_steps = 0
    /\ sched_steps = 0
    /\ model_file \in fileSet
    /\ loaded = NoFile

Init == InitWith(1..MaxEpochs, {S_unet}, {FALSE}, {NoFile, StaleFile})

InitStop == InitWith(1..MaxEpochsStop, {S_resnet}, {TRUE}, {NoFile})

InitConfig == InitWith({1}, ModelTypeInputs, BOOLEAN, {NoFile})

----------------------------------------------------------------------------
(* get_model_optimizer_scheduler, called from __main__ *)

GetModelOptimizerScheduler ==
    /\ pc = "setup"
    /\ LET sel == SelectModel(model_type)
           sch == IF cosine_annealing THEN "CosineAnnealingWarmRestarts" ELSE "unbound"
           cw  == IF use_class_weights THEN "tensor" ELSE "unbound"
       IN /\ fcn_arch' = sel.arch
          /\ init_fn' = sel.init
          /\ freeze_arg' = IF sel.freeze THEN (IF freeze_encoder THEN "True" ELSE "False")
                           ELSE "not passed"
          /\ scheduler' = sch
          /\ class_weights' = cw
          /\ criterion' = IF use_class_weights THEN "weighted" ELSE "unweighted"
          \* the return statement reads scheduler and class_weights
          /\ IF sch = "unbound" \/ cw = "unbound"
             THEN /\ pc' = "crashed"
                  /\ error' = "UnboundLocalError"
             ELSE /\ pc' = "main_val"
                  /\ error' = error
    /\ UNCHANGED <<cfgvars, mode, valvars, trainvars, model_file, loaded>>

----------------------------------------------------------------------------
(* val *)

\* __main__ line 295: val(0, ...) before training; its result is dropped
MainCallVal ==
    /\ pc = "main_val"
    /\ pc' = "val_enter"
    /\ val_caller' = "main"
    /\ UNCHANGED <<error, cfgvars, setupvars, mode, val_iter, val_passes,
                   trainvars, model_file, loaded>>

\* a val that does not switch the model to eval mode
ValEval_NoEval ==
    /\ pc = "val_enter"
    /\ mode' = mode
    /\ val_iter' = 0
    /\ pc' = "val_loop"
    /\ UNCHANGED <<error, cfgvars, setupvars, val_caller, val_passes,
                   trainvars, model_file, loaded>>

\* fcn_model.eval() and the set-up of the loop over val_loader
ValEval ==
    /\ pc = "val_enter"
    /\ mode' = "eval"
    /\ val_iter' = 0
    /\ pc' = "val_loop"
    /\ UNCHANGED <<error, cfgvars, setupvars, val_caller, val_passes,
                   trainvars, model_file, loaded>>

\* one iteration of the loop over val_loader: a forward pass
ValBatch ==
    /\ pc = "val_loop"
    /\ val_iter < NumValBatches
    /\ val_iter' = val_iter + 1
    /\ val_passes' = val_passes + 1
    /\ UNCHANGED <<pc, error, cfgvars, setupvars, mode, val_caller,
                   trainvars, model_file, loaded>>

\* fcn_model.train() and the return of the three means; `outcomes` is the
\* set the means are drawn from
ValReturn(outcomes) ==
    /\ pc = "val_loop"
    /\ val_iter = NumValBatches
    /\ mode' = "train"
    /\ val_caller' = "none"
    /\ \/ /\ val_caller = "main"
          /\ pc' = "train_init"
          /\ UNCHANGED <<current_miou_score, current_val_loss>>
       \/ /\ val_caller = "train"
          /\ pc' = "epoch_end"
          /\ \E o \in outcomes :
                /\ current_miou_score' = o.miou
                /\ current_val_loss' = o.loss
    /\ UNCHANGED <<error, cfgvars, setupvars, val_iter, val_passes,
                   epoch, iter, best_iou_score, val_loss, mean_iou_scores,
                   bad_epochs, earlyStop, opt_steps, sched_steps,
                   model_file, loaded>>

\* every pair of an mIoU level and a loss level
FreeOutcomes == [miou : 0..MaxMiou, loss : 0..MaxLoss]

\* loss levels that move by at most one level from the previous epoch's,
\* with an mIoU that falls as the loss rises
DriftOutcomes ==
    { o \in [miou : 0..MaxLossStop, loss : 0..MaxLossStop] :
        /\ o.miou = MaxLossStop - o.loss
        /\ epoch > 0 => /\ o.loss - val_loss[epoch] <= 1
                        /\ val_loss[epoch] - o.loss <= 1 }

----------------------------------------------------------------------------
(* train *)

\* lines 131-146
TrainInit ==
    /\ pc = "train_init"
    /\ best_iou_score' = 0
    /\ val_loss' = ZeroArray(epochs)
    /\ mean_iou_scores' = ZeroArray(epochs)
    /\ bad_epochs' = 0
    /\ earlyStop' = -1
    /\ epoch' = 0
    /\ pc' = "loop_head"
    /\ UNCHANGED <<error, cfgvars, setupvars, mode, valvars, iter,
                   current_miou_score, current_val_loss, opt_steps, sched_steps,
                   model_file, loaded>>

\* for epoch in range(epochs)
LoopHead ==
    /\ pc = "loop_head"
    /\ IF epoch < epochs
       THEN /\ iter' = 0
            /\ pc' = "train_batch"
       ELSE /\ iter' = iter
            /\ pc' = "train_exit"
    /\ UNCHANGED <<error, cfgvars, setupvars, mode, valvars, epoch,
                   best_iou_score, val_loss, mean_iou_scores, bad_epochs,
                   earlyStop, current_miou_score, current_val_loss, opt_steps,
                   sched_steps, model_file, loaded>>

\* one iteration of the loop over train_loader, lines 155-175
TrainBatch ==
    /\ pc = "train_batch"
    /\ iter < NumTrainBatches
    /\ opt_steps' = opt_steps + 1
    /\ sched_steps' = IF cosine_annealing THEN sched_steps + 1 ELSE sched_steps
    /\ iter' = iter + 1
    /\ UNCHANGED <<pc, error, cfgvars, setupvars, mode, valvars, epoch,
                   best_iou_score, val_loss, mean_iou_scores, bad_epochs,
                   earlyStop, current_miou_score, current_val_loss,
                   model_file, loaded>>

\* line 179: the call of val at the end of the epoch's batches
TrainCallVal ==
    /\ pc = "train_batch"
    /\ iter = NumTrainBatches
    /\ pc' = "val_enter"
    /\ val_caller' = "train"
    /\ UNCHANGED <<error, cfgvars, setupvars, mode, val_iter, val_passes,
                   trainvars, model_file, loaded>>

\* a bad-epoch test that also counts an unchanged loss
IsBadEpoch_Tie(e, cur, losses) ==
    e > 0 /\ early_stop /\ cur >= losses[e]

\* a bad-epoch test against the lowest loss of the earlier epochs
IsBadEpoch_Best(e, cur, losses) ==
    e > 0 /\ early_stop /\ cur > SetMin({losses[k] : k \in 1..e})

\* line 190: is this epoch counted as a bad epoch
IsBadEpoch(e, cur, losses) ==
    e > 0 /\ early_stop /\ cur > losses[e]

\* a save-best test that also fires on a tie
Improves_Tie(cur, best) == cur >= best

\* line 184: does this epoch's model replace the checkpoint
Improves(cur, best) == cur > best

\* a patience test that is met one bad epoch too early
PatienceExceeded_AtPatience(bad) == bad >= early_stop_patience

\* line 194: is the patience exhausted
PatienceExceeded(bad) == bad > early_stop_patience

\* lines 180-200: record the metrics, save the best model, count bad
\* epochs, stop early or go on with the next epoch
EpochEnd ==
    /\ pc = "epoch_end"
    /\ val_loss' = [val_loss EXCEPT ![epoch + 1] = current_val_loss]
    /\ mean_iou_scores' = [mean_iou_scores EXCEPT ![epoch + 1] = current_miou_score]
    /\ IF Improves(current_miou_score, best_iou_score)
       THEN /\ best_iou_score' = current_miou_score
            /\ model_file' = epoch
       ELSE /\ best_iou_score' = best_iou_score
            /\ model_file' = model_file
    /\ LET bad == IF IsBadEpoch(epoch, current_val_loss, val_loss)
                  THEN bad_epochs + 1 ELSE 0
       IN /\ bad_epochs' = bad
          /\ IF PatienceExceeded(bad)
             THEN /\ earlyStop' = epoch
                  /\ epoch' = epoch
                  /\ pc' = "train_exit"
             ELSE /\ earlyStop' = earlyStop
                  /\ epoch' = epoch + 1
                  /\ pc' = "loop_head"
    /\ UNCHANGED <<error, cfgvars, setupvars, mode, valvars, iter,
                   current_miou_score, current_val_loss, opt_steps, sched_steps,
                   loaded>>

\* lines 201-202 and the return to __main__
TrainExit ==
    /\ pc = "train_exit"
    /\ pc' = "model_test"
    /\ UNCHANGED <<error, cfgvars, setupvars, mode, valvars, trainvars,
                   model_file, loaded>>

----------------------------------------------------------------------------
(* modelTest *)

\* torch.load(save_location + 'model.pt') and the test loop
ModelTest ==
    /\ pc = "model_test"
    /\ IF model_file = NoFile
       THEN /\ pc' = "crashed"
            /\ error' = "FileNotFoundError"
            /\ loaded' = loaded
       ELSE /\ pc' = "done"
            /\ error' = error
            /\ loaded' = model_file
    /\ UNCHANGED <<cfgvars, setupvars, mode, valvars, trainvars, model_file>>

----------------------------------------------------------------------------
(* Specifications *)

Next ==
    \/ GetModelOptimizerScheduler
    \/ MainCallVal
    \/ ValEval
    \/ ValBatch
    \/ ValReturn(FreeOutcomes)
    \/ TrainInit
    \/ LoopHead
    \/ TrainBatch
    \/ TrainCallVal
    \/ EpochEnd
    \/ TrainExit
    \/ ModelTest

Spec == Init /\ [][Next]_vars

NextStop ==
    \/ GetModelOptimizerScheduler
    \/ MainCallVal
    \/ ValEval
    \/ ValBatch
    \/ ValReturn(DriftOutcomes)
    \/ TrainInit
    \/ LoopHead
    \/ TrainBatch
    \/ TrainCallVal
    \/ EpochEnd
    \/ TrainExit
    \/ ModelTest

SpecStop == InitStop /\ [][NextStop]_vars

\* the program is one thread that runs until it exits or crashes
FairSpecStop == SpecStop /\ WF_vars(NextStop)

NextConfig == GetModelOptimizerScheduler

SpecConfig == InitConfig /\ [][NextConfig]_vars

----------------------------------------------------------------------------
(* Vocabulary of the properties *)

SetMax(S) == CHOOSE x \in S : \A y \in S : y <= x

TrainEntered == val_loss # <<>>

\* number of epochs whose metrics train has recorded in its arrays
Recorded ==
    IF ~TrainEntered THEN 0
    ELSE IF earlyStop # -1 THEN earlyStop + 1
    ELSE epoch

\* array position k holds epoch k - 1
Worse(k) == k >= 2 /\ val_loss[k] > val_loss[k - 1]
NotLower(k) == k >= 2 /\ val_loss[k] >= val_loss[k - 1]

\* length of the unbroken run of worse epochs that ends at the last
\* recorded epoch
WorseRun ==
    LET n == Recorded IN
    CHOOSE r \in 0..n : /\ \A k \in (n - r + 1)..n : Worse(k)
                        /\ r < n => ~Worse(n - r)

NotLowerRun ==
    LET n == Recorded IN
    CHOOSE r \in 0..n : /\ \A k \in (n - r + 1)..n : NotLower(k)
                        /\ r < n => ~NotLower(n - r)

TrainLeft == pc \in {"train_exit", "model_test", "done"} \/ error = "FileNotFoundError"

----------------------------------------------------------------------------
(* C1: in train the model is saved at an epoch if and only if that epoch's *)
(* validation mIoU is strictly greater than best_iou_score; after every    *)
(* epoch best_iou_score is the maximum of 0 and all mIoU values seen so    *)
(* far, it never decreases, and the stored checkpoint is the model of the  *)
(* earliest epoch that reached that maximum.                               *)

SeenMiou == {mean_iou_scores[k] : k \in 1..Recorded}

C1_BestIsMax ==
    TrainEntered =>
        /\ best_iou_score = SetMax({0} \cup SeenMiou)
        /\ best_iou_score > 0 => model_file >= 0
        /\ model_file >= 0 =>
              /\ model_file + 1 \in 1..Recorded
              /\ mean_iou_scores[model_file + 1] = best_iou_score
              /\ \A k \in 1..model_file : mean_iou_scores[k] < best_iou_score

C1_SaveStep ==
    pc = "epoch_end" /\ pc' # "epoch_end" =>
        /\ (current_miou_score > best_iou_score) <=> (model_file' = epoch)
        /\ ~(current_miou_score > best_iou_score) => model_file' = model_file
        /\ best_iou_score' >= best_iou_score

C1_SaveBest == []C1_BestIsMax /\ [][C1_SaveStep]_vars

\* the maximum was reached, lost and reached again: the checkpoint is the
\* first of the two epochs
C1_Witness ==
    /\ pc = "train_exit"
    /\ Recorded >= 3
    /\ \E i, j \in 1..Recorded :
          /\ i + 1 < j
          /\ mean_iou_scores[i] = best_iou_score
          /\ mean_iou_scores[j] = best_iou_score
          /\ mean_iou_scores[i + 1] < best_iou_score
          /\ model_file = i - 1

----------------------------------------------------------------------------
(* C2: every run that completes train with epochs >= 1 has written a       *)
(* best-checkpoint file, so the torch.load in modelTest always finds a     *)
(* checkpoint written by train in the same run, whatever the validation    *)
(* mIoU values were.                                                       *)

C2_CheckpointWritten ==
    /\ pc = "model_test" => model_file >= 0
    /\ error # "FileNotFoundError"
    /\ pc = "done" => loaded >= 0

----------------------------------------------------------------------------
(* C3, as stated: whenever train breaks out of the epoch loop at epoch e,  *)
(* each of the epochs e-5 .. e had a validation loss that was not lower    *)
(* than the loss of the epoch before it, and bad_epochs equals the length  *)
(* of the current unbroken run of such (not lower) epochs.                 *)

C3_AsStated ==
    TrainEntered =>
        /\ earlyStop # -1 =>
              /\ earlyStop - early_stop_patience >= 1
              /\ \A e \in (earlyStop - early_stop_patience)..earlyStop : NotLower(e + 1)
        /\ bad_epochs = NotLowerRun

(* C3, amended: whenever train breaks out of the epoch loop at epoch e,    *)
(* each of the epochs e-5 .. e had a validation loss strictly higher than  *)
(* the loss of the epoch before it, and bad_epochs equals the length of    *)
(* the current unbroken run of such strictly worse epochs.                 *)

C3_WorseRun ==
    TrainEntered =>
        /\ earlyStop # -1 =>
              /\ earlyStop - early_stop_patience >= 1
              /\ \A e \in (earlyStop - early_stop_patience)..earlyStop : Worse(e + 1)
        /\ bad_epochs = WorseRun

\* a break whose run of worse epochs follows an epoch with an unchanged loss
C3_Witness ==
    /\ earlyStop = 7
    /\ pc = "train_exit"
    /\ val_loss[1] = val_loss[2]
    /\ bad_epochs = early_stop_patience + 1

----------------------------------------------------------------------------
(* C6: the patience threshold is 5 epochs: train stops at the first epoch  *)
(* at which 5 consecutive epochs have each had a validation loss greater   *)
(* than the previous epoch's.                                              *)

C6_StopsAtFive ==
    TrainEntered => ((WorseRun >= 5) <=> (earlyStop # -1))

----------------------------------------------------------------------------
(* C9: epoch 0 is never counted as a bad epoch; an epoch whose validation  *)
(* loss is less than or equal to the previous epoch's resets bad_epochs to *)
(* 0, whatever the best loss so far is; early stopping triggers no earlier *)
(* than epoch index 6, and a run with epochs <= 6 executes all its epochs. *)

C9_ResetAndEarliest ==
    TrainEntered =>
        /\ Recorded = 1 => bad_epochs = 0
        /\ Recorded >= 2 /\ val_loss[Recorded] <= val_loss[Recorded - 1]
              => bad_epochs = 0
        /\ Recorded >= 2 /\ val_loss[Recorded] > val_loss[Recorded - 1]
              => bad_epochs >= 1
        /\ earlyStop # -1 => earlyStop >= 6
        /\ epochs <= 6 /\ TrainLeft =>
              /\ earlyStop = -1
              /\ Recorded = epochs
              /\ opt_steps = epochs * NumTrainBatches

\* a loss that fell back, yet stayed above the best loss so far, reset the
\* counter
C9_Witness ==
    /\ pc = "loop_head"
    /\ Recorded = 4
    /\ val_loss[1] < val_loss[4]
    /\ val_loss[4] < val_loss[3]
    /\ bad_epochs = 0

----------------------------------------------------------------------------
(* C7: val puts the model in eval mode before its first forward pass and   *)
(* turns train mode back on before returning, so every validation forward  *)
(* pass of the run happens in eval mode and every training step in train   *)
(* mode.                                                                   *)

C7_Modes ==
    /\ pc = "val_loop" /\ val_iter < NumValBatches => mode = "eval"
    /\ pc = "train_batch" /\ iter < NumTrainBatches => mode = "train"
    /\ pc \in {"train_init", "epoch_end"} => mode = "train"

\* a training step about to run after val has run both from __main__ and
\* from train
C7_Witness ==
    /\ pc = "train_batch"
    /\ iter < NumTrainBatches
    /\ epoch >= 1
    /\ val_passes >= 2 * NumValBatches
    /\ opt_steps >= NumTrainBatches

----------------------------------------------------------------------------
(* C8: train always terminates and runs at most `epochs` epochs: exactly   *)
(* `epochs` when early stopping never triggers, otherwise e + 1 where e is *)
(* the first epoch index at which bad_epochs exceeds early_stop_patience;  *)
(* no training or validation step runs after the break, and modelTest      *)
(* starts only after train has returned.                                   *)

\* epoch indices at which a run of more than early_stop_patience worse
\* epochs ends
ExceedAt ==
    { e \in 0..(Recorded - 1) :
        /\ e - early_stop_patience >= 1
        /\ \A k \in (e - early_stop_patience)..e : Worse(k + 1) }

Executed == IF earlyStop = -1 THEN epochs ELSE earlyStop + 1

C8_Counts ==
    /\ opt_steps <= epochs * NumTrainBatches
    /\ TrainEntered =>
          /\ earlyStop = -1 => ExceedAt = {}
          /\ earlyStop # -1 => ExceedAt # {} /\ earlyStop = SetMin(ExceedAt)
    /\ TrainLeft =>
          /\ opt_steps = Executed * NumTrainBatches
          /\ val_passes = (Executed + 1) * NumValBatches

C8_AfterTrain ==
    /\ earlyStop' # -1 \/ TrainLeft =>
          /\ opt_steps' = opt_steps
          /\ val_passes' = val_passes
    /\ pc' = "model_test" /\ pc # "model_test" => pc = "train_exit"

C8_Terminates ==
    /\ []C8_Counts
    /\ [][C8_AfterTrain]_vars
    /\ (pc = "train_init") ~> (pc = "train_exit")

\* train left its loop by the break with epochs still to run
C8_Witness ==
    /\ pc = "model_test"
    /\ earlyStop # -1
    /\ earlyStop + 1 < epochs

----------------------------------------------------------------------------
(* C4: for every combination of the cosine_annealing and                   *)
(* class_imbalance_fix toggles get_model_optimizer_scheduler completes and *)
(* returns; with cosine_annealing off no scheduler step is taken, and with *)
(* class_imbalance_fix off an unweighted loss is used.                     *)

C4_TogglesComplete ==
    pc # "setup" =>
        /\ error # "UnboundLocalError"
        /\ ~cosine_annealing => sched_steps = 0
        /\ ~use_class_weights => criterion = "unweighted"

----------------------------------------------------------------------------
(* C5: model_type selects the architecture case-insensitively; the seven   *)
(* known names build their own model and every other string builds the     *)
(* basic FCN without an error; exactly the five resnet-family types get    *)
(* the freeze_encoder flag and the transfer-learning initialisation, all   *)
(* others get init_weights.                                                *)

SameLetter(a, b) ==
    \/ a = b
    \/ \E i \in DOMAIN UpperCase :
          {a, b} = {UpperCase[i], LowerCase[i]}

EqIgnoreCase(s, t) ==
    /\ Len(s) = Len(t)
    /\ \A i \in 1..Len(s) : SameLetter(s[i], t[i])

KnownTypes ==
    { <<S_unet, "UNet">>, <<S_resnet, "Resnet">>, <<S_new_arch, "New_Arch">>,
      <<S_resnet50, "Resnet50">>, <<S_resnet_leaky, "ResnetLeaky">>,
      <<S_resnet_2model_skip_res_cat, "Resnet2ModelSkipResCat">>,
      <<S_resnet_skip_residual, "Resnet_Skip_Residual">> }

ResnetFamily ==
    {"Resnet", "Resnet50", "ResnetLeaky", "Resnet2ModelSkipResCat",
     "Resnet_Skip_Residual"}

C5_ModelSelection ==
    pc # "setup" =>
        /\ \A kt \in KnownTypes :
              EqIgnoreCase(model_type, kt[1]) => fcn_arch = kt[2]
        /\ (\A kt \in KnownTypes : ~EqIgnoreCase(model_type, kt[1]))
              => fcn_arch = "FCN"
        /\ cosine_annealing /\ use_class_weights => error = "none"
        /\ IF fcn_arch \in ResnetFamily
           THEN /\ freeze_arg = (IF freeze_encoder THEN "True" ELSE "False")
                /\ init_fn = "init_weights_transfer_learning"
           ELSE /\ freeze_arg = "not passed"
                /\ init_fn = "init_weights"

\* a resnet-family name in another casing, and its encoder flag
C5_Witness ==
    /\ pc # "setup"
    /\ model_type = <<"R","e","s","n","e","t","_","L","e","a","k","y">>
    /\ fcn_arch = "ResnetLeaky"
    /\ freeze_arg = "True"
    /\ init_fn = "init_weights_transfer_learning"

====
